---- MODULE Spec2Model ----
(***************************************************************************)
(* ARG / HMRG colocalization pipeline.                                     *)
(*                                                                         *)
(* Text is modelled as a sequence of atoms.  Every delimiter character the *)
(* scripts split or match on ("|", ".", "_", ";", "[", "]", "=", ">",      *)
(* blanks) is an atom of its own; every other atom is a run of word        *)
(* characters.  split, strip, index and the two regular expressions are    *)
(* computed on these sequences the way Python computes them on strings.    *)
(***************************************************************************)
EXTENDS Integers, Sequences, FiniteSets, TLC

VARIABLES
  \* one reference header and what each of the three parsers makes of it
  header, parsed, accColoc, accAbund,
  \* 10.5_create_hmrg_annotation_map.main: the lines read so far, the dict
  \* built from them, the table written, and where main is
  fastaRead, annotation_map, unique_map, mapPc,
  \* one sample: its three input files and the translation table, the
  \* best hits and detailed report of 11_run_colocalization_analysis_v6, the two reports of
  \* 12_analyze_abundance_v3, and which script runs next
  card, bacmet, gff, hmrg_map, df_annotations, details, pairs, hmrgAbundance, samplePc,
  \* the plot table of 13_prepare_cluster_data_v4, the configured
  \* NUM_TOP_CONTIGS_TO_PLOT and the plot table of 14_filter_top_clusters-v3,
  \* and which of the report scripts runs next
  plotData, topK, topPlotData, reportPc,
  \* 11_run_colocalization_analysis_v6.main: the samples it found, the one the
  \* loop is at, what became of each sample so far, and where main is
  runSamples, runNext, runLog, runPc,
  \* 15_format_for_external_plotter.main: the files of its input folder, the
  \* samples it found, the one the loop is at, and what was read and written
  \* for each sample so far
  folder, plotSamples, plotNext, plotLog

headerVars == <<header, parsed, accColoc, accAbund>>
mapVars == <<fastaRead, annotation_map, unique_map, mapPc>>
sampleVars == <<card, bacmet, gff, hmrg_map, df_annotations, details, pairs, hmrgAbundance, samplePc>>
reportVars == <<plotData, topK, topPlotData, reportPc>>
runVars == <<runSamples, runNext, runLog, runPc>>
plotterVars == <<folder, plotSamples, plotNext, plotLog>>
vars == <<header, parsed, accColoc, accAbund, fastaRead, annotation_map, unique_map, mapPc,
          card, bacmet, gff, hmrg_map, df_annotations, details, pairs, hmrgAbundance, samplePc,
          plotData, topK, topPlotData, reportPc,
          runSamples, runNext, runLog, runPc, folder, plotSamples, plotNext, plotLog>>

\* ---------------------------------------------------------------- bounds
MaxFields == 5
MaxLines == 3
MaxRows == 4
MaxDetailRows == 5
MaxTopContigs == 2
MaxSamples == 3
MaxPlotRows == 3

\* ------------------------------------------------------------ text atoms
None == <<"<None>">>
Unset == <<"<unset>">>
Whitespace == {" ", "\n", "\t"}
WordAtoms == {"gi", "1", "2", "ref", "gb", "emb", "sp", "tr", "A", "B", "g", "h", "GN", "_"}
GNChars == WordAtoms \cup {"(", ")", "-", "/", "."}

Falsy(x) == x = None \/ x = <<>>

\* str.split(d): always at least one piece
RECURSIVE Split(_, _)
Split(s, d) ==
  IF \A i \in 1..Len(s) : s[i] # d
  THEN <<s>>
  ELSE LET i == CHOOSE k \in 1..Len(s) : s[k] = d /\ \A j \in 1..(k-1) : s[j] # d
       IN  <<SubSeq(s, 1, i-1)>> \o Split(SubSeq(s, i+1, Len(s)), d)

\* '|'.join(fields)
RECURSIVE Join(_, _)
Join(fields, d) ==
  IF Len(fields) = 0 THEN <<>>
  ELSE IF Len(fields) = 1 THEN fields[1]
  ELSE fields[1] \o <<d>> \o Join(Tail(fields), d)

\* str.strip(chars): drop the leading and trailing atoms that are in chars
StripSet(s, chars) ==
  IF \A i \in 1..Len(s) : s[i] \in chars
  THEN <<>>
  ELSE LET lo == CHOOSE k \in 1..Len(s) : s[k] \notin chars /\ \A j \in 1..(k-1) : s[j] \in chars
           hi == CHOOSE k \in 1..Len(s) : s[k] \notin chars /\ \A j \in (k+1)..Len(s) : s[j] \in chars
       IN  SubSeq(s, lo, hi)

Strip(s) == StripSet(s, Whitespace)

\* list.index(x) for x known to be in the list
IndexOf(parts, x) == CHOOSE k \in 1..Len(parts) : parts[k] = x /\ \A j \in 1..(k-1) : parts[j] # x

InList(parts, x) == \E k \in 1..Len(parts) : parts[k] = x

\* accession.split('.')[0]
StripVersion(acc) == Split(acc, ".")[1]

db_codes == << <<"ref">>, <<"gb">>, <<"emb">>, <<"sp">>, <<"tr">> >>

\* ---------------------------------------- 10.5_create_hmrg_annotation_map
\* re.compile(r"\[([^\]]+)\]\s*$").search(header): group(1) or None
BracketMatchAt(s, i) ==
  /\ s[i] = "["
  /\ \E j \in (i+2)..Len(s) :
       /\ s[j] = "]"
       /\ \A k \in (i+1)..(j-1) : s[k] # "]"
       /\ \A k \in (j+1)..Len(s) : s[k] \in Whitespace

bracket_pattern(s) ==
  IF \E i \in 1..Len(s) : BracketMatchAt(s, i)
  THEN LET i == CHOOSE k \in 1..Len(s) : BracketMatchAt(s, k) /\ \A m \in 1..(k-1) : ~BracketMatchAt(s, m)
           j == CHOOSE k \in (i+2)..Len(s) : s[k] = "]" /\ \A m \in (i+1)..(k-1) : s[m] # "]"
       IN  SubSeq(s, i+1, j-1)
  ELSE None

\* re.compile(r"GN=([\w\(\)\-\_/\.]+)").search(header): group(1) or None
GNMatchAt(s, i) ==
  /\ i + 2 <= Len(s)
  /\ s[i] = "GN" /\ s[i+1] = "=" /\ s[i+2] \in GNChars

gn_pattern(s) ==
  IF \E i \in 1..Len(s) : GNMatchAt(s, i)
  THEN LET i == CHOOSE k \in 1..Len(s) : GNMatchAt(s, k) /\ \A m \in 1..(k-1) : ~GNMatchAt(s, m)
           j == CHOOSE k \in (i+2)..Len(s) :
                  /\ \A m \in (i+2)..k : s[m] \in GNChars
                  /\ (k = Len(s) \/ s[k+1] \notin GNChars)
       IN  SubSeq(s, i+2, j)
  ELSE None

\* the for-loop over db_codes of process_header: the field after the first
\* code (in list order) that occurs in parts and is not the last field
RECURSIVE HeaderCodeScan(_, _)
HeaderCodeScan(parts, c) ==
  IF c > Len(db_codes) THEN None
  ELSE IF InList(parts, db_codes[c]) /\ Len(parts) > IndexOf(parts, db_codes[c])
       THEN parts[IndexOf(parts, db_codes[c]) + 1]
       ELSE HeaderCodeScan(parts, c + 1)

process_header(line) ==
  LET hdr   == StripSet(Strip(line), {">"})
      br    == bracket_pattern(hdr)
      gene1 == IF br # None THEN br ELSE gn_pattern(hdr)
      parts == Split(hdr, "|")
      acc1  == HeaderCodeScan(parts, 1)
      fourth == Falsy(acc1) /\ Len(parts) > 3
      acc2  == IF fourth THEN parts[4] ELSE acc1
      gene2 == IF fourth /\ Falsy(gene1) THEN parts[2] ELSE gene1
      gene3 == IF Falsy(gene2) /\ ~Falsy(acc2) THEN StripVersion(acc2) ELSE gene2
  IN  [accession |-> acc2, gene_name |-> gene3]

\* ------------------------------------ 11_run_colocalization_analysis_v6
unknown_accession == <<"unknown", "_", "accession">>
parse_error == <<"parse", "_", "error">>

RECURSIVE ColocCodeScan(_, _)
ColocCodeScan(parts, c) ==
  IF c > Len(db_codes) THEN None
  ELSE IF InList(parts, db_codes[c]) /\ Len(parts) > IndexOf(parts, db_codes[c])
       THEN StripVersion(parts[IndexOf(parts, db_codes[c]) + 1])
       ELSE ColocCodeScan(parts, c + 1)

\* parse_hmrg_accession returning the field after the code with its version
parse_hmrg_accession_versioned(sseqid) ==
  LET parts == Split(Strip(sseqid), "|")
      hit   == HeaderCodeScan(parts, 1)
  IN  IF hit # None THEN hit
      ELSE IF Len(parts) > 3 THEN parts[4]
      ELSE unknown_accession

parse_hmrg_accession(sseqid) ==
  LET parts == Split(Strip(sseqid), "|")
      hit   == ColocCodeScan(parts, 1)
  IN  IF hit # None THEN hit
      ELSE IF Len(parts) > 3 THEN parts[4]
      ELSE unknown_accession

\* ------------------------------------------- 12_analyze_abundance_v3
\* the first code of db_codes that occurs in parts decides: an IndexError on
\* parts[index + 1] is caught by the bare except
RECURSIVE AbundCodeScan(_, _)
AbundCodeScan(parts, c) ==
  IF c > Len(db_codes) THEN None
  ELSE IF InList(parts, db_codes[c])
       THEN IF Len(parts) > IndexOf(parts, db_codes[c])
            THEN StripVersion(parts[IndexOf(parts, db_codes[c]) + 1])
            ELSE parse_error
       ELSE AbundCodeScan(parts, c + 1)

parse_hmrg_accession_abundance(sseqid) ==
  LET parts == Split(Strip(sseqid), "|")
      hit   == AbundCodeScan(parts, 1)
  IN  IF hit # None THEN hit
      ELSE IF Len(parts) > 3 THEN parts[4]
      ELSE unknown_accession

\* ===================================================== header functions
\* the '|'-delimited fields a reference header is drawn from
HeaderFields == { <<"gi">>, <<"1">>, <<"ref">>, <<"tr">>, <<"A", ".", "1">>, <<>> }

FieldSeqs == UNION { [1..n -> HeaderFields] : n \in 1..MaxFields }

\* a header line of the reference FASTA as main() hands it to process_header
FastaLine(h) == <<">">> \o h \o <<"\n">>

HeaderIdle ==
  /\ header = <<>>
  /\ parsed = [accession |-> Unset, gene_name |-> Unset]
  /\ accColoc = Unset
  /\ accAbund = Unset

MapIdle ==
  /\ fastaRead = <<>>
  /\ annotation_map = <<>>
  /\ unique_map = <<>>
  /\ mapPc = "reading"

NoFile == [exists |-> FALSE, rows |-> <<>>]

SampleIdle ==
  /\ card = <<>>
  /\ bacmet = <<>>
  /\ gff = <<>>
  /\ hmrg_map = <<>>
  /\ df_annotations = <<>>
  /\ details = NoFile
  /\ pairs = NoFile
  /\ hmrgAbundance = NoFile
  /\ samplePc = "idle"

ReportIdle ==
  /\ plotData = NoFile
  /\ topK = 0
  /\ topPlotData = NoFile
  /\ reportPc = "idle"

RunIdle ==
  /\ runSamples = <<>>
  /\ runNext = 0
  /\ runLog = <<>>
  /\ runPc = "idle"

PlotterIdle ==
  /\ folder = <<>>
  /\ plotSamples = <<>>
  /\ plotNext = 0
  /\ plotLog = <<>>

InitHeader ==
  /\ header \in { Join(fs, "|") : fs \in FieldSeqs }
  /\ parsed = [accession |-> Unset, gene_name |-> Unset]
  /\ accColoc = Unset
  /\ accAbund = Unset
  /\ MapIdle
  /\ SampleIdle
  /\ ReportIdle
  /\ RunIdle
  /\ PlotterIdle

ProcessHeader ==
  /\ parsed.accession = Unset
  /\ parsed' = process_header(FastaLine(header))
  /\ UNCHANGED <<header, accColoc, accAbund>>
  /\ UNCHANGED <<mapVars, sampleVars, reportVars, runVars, plotterVars>>

ParseHmrgAccession ==
  /\ accColoc = Unset
  /\ accColoc' = parse_hmrg_accession(header)
  /\ UNCHANGED <<header, parsed, accAbund>>
  /\ UNCHANGED <<mapVars, sampleVars, reportVars, runVars, plotterVars>>

ParseHmrgAccessionAbundance ==
  /\ accAbund = Unset
  /\ accAbund' = parse_hmrg_accession_abundance(header)
  /\ UNCHANGED <<header, parsed, accColoc>>
  /\ UNCHANGED <<mapVars, sampleVars, reportVars, runVars, plotterVars>>

NextHeader == ProcessHeader \/ ParseHmrgAccession \/ ParseHmrgAccessionAbundance

SpecHeader == InitHeader /\ [][NextHeader]_vars

\* the '|'-split fields of the header under test
HeaderParts == Split(header, "|")

\* header has the form gi|<n>|ref|<ACC>.<version>|...
GiRefForm ==
  /\ Len(HeaderParts) >= 5
  /\ HeaderParts[1] = <<"gi">>
  /\ HeaderParts[2] = <<"1">>
  /\ HeaderParts[3] = <<"ref">>
  /\ Len(Split(HeaderParts[4], ".")) = 2
  /\ \A k \in 1..2 : Split(HeaderParts[4], ".")[k] # <<>>

BothParsed == parsed.accession # Unset /\ accColoc # Unset

\* C3 as claimed: for every header gi|<n>|ref|<ACC>.<version>|... process_header
\* and parse_hmrg_accession both return the version-stripped <ACC>.
C3_BothStripped ==
  (GiRefForm /\ BothParsed) =>
     /\ parsed.accession = StripVersion(HeaderParts[4])
     /\ accColoc = StripVersion(HeaderParts[4])

\* C3 amended: for every header gi|<n>|ref|<ACC>.<version>|... process_header
\* returns the accession as given, <ACC>.<version>; parse_hmrg_accession returns
\* <ACC>, which is the key accession.split('.')[0] the map builder derives from
\* process_header's accession.
C3_StrippedKeyAgrees ==
  (GiRefForm /\ BothParsed) =>
     /\ parsed.accession = HeaderParts[4]
     /\ accColoc = Split(HeaderParts[4], ".")[1]
     /\ StripVersion(parsed.accession) = accColoc

C3_Witness ==
  /\ GiRefForm /\ BothParsed
  /\ parsed.accession = <<"A", ".", "1">>
  /\ accColoc = <<"A">>

\* C4 as claimed: the abundance script's parse_hmrg_accession returns the same
\* value as the colocalization script's for every subject_id.
C4_SameExtraction ==
  (accColoc # Unset /\ accAbund # Unset) => accColoc = accAbund

\* the codes of db_codes that occur among the fields, and the first of them in
\* list order
OccurringCodes == { c \in 1..Len(db_codes) : InList(HeaderParts, db_codes[c]) }

FirstCode == CHOOSE c \in OccurringCodes : \A d \in OccurringCodes : c <= d

HasNext(c) == Len(HeaderParts) > IndexOf(HeaderParts, db_codes[c])

\* C20 as claimed: for every header in which one of ref, gb, emb, sp, tr is a
\* field, process_header returns as accession the field that follows the first
\* such code in list order; the 4th-field fallback gives the accession only
\* when no code is a field, so a header whose codes are followed by no field
\* has no accession.
C20_FieldAfterFirstCode ==
  (parsed.accession # Unset /\ OccurringCodes # {}) =>
     /\ HasNext(FirstCode) =>
          parsed.accession = HeaderParts[IndexOf(HeaderParts, db_codes[FirstCode]) + 1]
     /\ (\A c \in OccurringCodes : ~HasNext(c)) => parsed.accession = None

\* ============================================ 10.5 main: the map builder
\* a Python dict: the items in insertion order, keys unique
DictHas(d, k) == \E i \in 1..Len(d) : d[i].key = k

DictGet(d, k) == d[CHOOSE i \in 1..Len(d) : d[i].key = k].value

\* d[k] = v: a key already present keeps its place, a new key goes last
DictSet(d, k, v) ==
  IF DictHas(d, k)
  THEN [i \in 1..Len(d) |-> IF d[i].key = k THEN [key |-> k, value |-> v] ELSE d[i]]
  ELSE Append(d, [key |-> k, value |-> v])

\* {acc.split('.')[0]: name for acc, name in annotation_map.items()}
RECURSIVE StrippedComprehension(_, _)
StrippedComprehension(items, acc) ==
  IF items = <<>> THEN acc
  ELSE StrippedComprehension(Tail(items),
                             DictSet(acc, StripVersion(Head(items).key), Head(items).value))

\* line.startswith(">")
StartsWithGt(line) == Len(line) > 0 /\ line[1] = ">"

\* the body of the for-loop over the lines of the FASTA file
RegisterLine(d, line) ==
  IF ~StartsWithGt(line) THEN d
  ELSE LET r == process_header(line)
       IN  IF ~Falsy(r.accession) /\ ~Falsy(r.gene_name)
           THEN DictSet(DictSet(d, r.accession, r.gene_name),
                        StripVersion(r.accession), r.gene_name)
           ELSE d

\* the lines the reference FASTA is drawn from: headers that resolve to
\* accession A (versions 1, 2, 1.2, none) or B, a header nothing resolves from,
\* and a sequence line
FastaLines == {
  FastaLine(<<"ref", "|", "A", ".", "1", ".", "2", "|", " ", "[", "g", "]">>),
  FastaLine(<<"ref", "|", "A", ".", "1", "|", " ", "[", "g", "]">>),
  FastaLine(<<"ref", "|", "A", ".", "2", "|", " ", "[", "h", "]">>),
  FastaLine(<<"ref", "|", "A", "|", "GN", "=", "h">>),
  FastaLine(<<"B", "|", "g", "|", "1", "|", "A", ".", "1">>),
  FastaLine(<<"gi", "|", "1", "|", "ref", "|", "B", ".", "1", "|">>),
  FastaLine(<<"gi", "|", "1">>),
  <<"A", "B", "\n">> }

InitMap ==
  /\ HeaderIdle
  /\ MapIdle
  /\ SampleIdle
  /\ ReportIdle
  /\ RunIdle
  /\ PlotterIdle

ReadLine ==
  /\ mapPc = "reading"
  /\ Len(fastaRead) < MaxLines
  /\ \E line \in FastaLines :
       /\ fastaRead' = Append(fastaRead, line)
       /\ annotation_map' = RegisterLine(annotation_map, line)
  /\ UNCHANGED <<unique_map, mapPc>>
  /\ UNCHANGED <<headerVars, sampleVars, reportVars, runVars, plotterVars>>

WriteMap ==
  /\ mapPc = "reading"
  /\ unique_map' = StrippedComprehension(annotation_map, <<>>)
  /\ mapPc' = "written"
  /\ UNCHANGED <<fastaRead, annotation_map>>
  /\ UNCHANGED <<headerVars, sampleVars, reportVars, runVars, plotterVars>>

NextMap == ReadLine \/ WriteMap

SpecMap == InitMap /\ [][NextMap]_vars

\* line i of the FASTA registered an entry
Registers(i) ==
  /\ StartsWithGt(fastaRead[i])
  /\ ~Falsy(process_header(fastaRead[i]).accession)
  /\ ~Falsy(process_header(fastaRead[i]).gene_name)

\* the lines that resolved to the version-stripped accession k
ResolvedTo(k) ==
  { i \in 1..Len(fastaRead) :
      Registers(i) /\ StripVersion(process_header(fastaRead[i]).accession) = k }

LastResolved(k) == CHOOSE i \in ResolvedTo(k) : \A j \in ResolvedTo(k) : j <= i

StrippedAccessions ==
  { StripVersion(process_header(fastaRead[i]).accession) :
      i \in { j \in 1..Len(fastaRead) : Registers(j) } }

\* C2 as claimed: the persisted table maps every version-stripped accession to
\* the gene name of the last header in input order that resolved to it.
C2_LastHeaderWins ==
  mapPc = "written" =>
    \A k \in StrippedAccessions :
       /\ DictHas(unique_map, k)
       /\ DictGet(unique_map, k) = process_header(fastaRead[LastResolved(k)]).gene_name

\* the accession without its trailing version suffix: the text before the last
\* '.', the whole accession when it holds no '.'
WithoutLastSuffix(acc) ==
  IF \A i \in 1..Len(acc) : acc[i] # "." THEN acc
  ELSE LET k == CHOOSE i \in 1..Len(acc) : acc[i] = "." /\ \A j \in (i+1)..Len(acc) : acc[j] # "."
       IN  SubSeq(acc, 1, k - 1)

RegisteredAccessions ==
  { process_header(fastaRead[i]).accession : i \in { j \in 1..Len(fastaRead) : Registers(j) } }

\* C19 as claimed: every key of the persisted table is a registered accession
\* with only its trailing version suffix (the text after the last '.') removed,
\* and no key is a registered accession with its version suffix still on.
C19_KeysLoseLastSuffixOnly ==
  mapPc = "written" =>
    \A i \in 1..Len(unique_map) :
       /\ \E acc \in RegisteredAccessions : unique_map[i].key = WithoutLastSuffix(acc)
       /\ \A acc \in RegisteredAccessions :
            WithoutLastSuffix(acc) # acc => unique_map[i].key # acc

\* ===================== 11_run_colocalization_analysis_v6: analyze_sample
\* a missing value of a pandas column
NaN == <<"<NaN>">>

ARG == <<"ARG">>
HMRG == <<"HMRG">>
Other == <<"Other">>

\* code points of the characters that contig ids and bit scores are made of
CharCode ==
  ("0" :> 48) @@ ("1" :> 49) @@ ("2" :> 50) @@ ("3" :> 51) @@ ("5" :> 53) @@
  ("9" :> 57) @@ ("_" :> 95) @@ ("k" :> 107)

\* a < b on Python str: character by character, a proper prefix is smaller
RECURSIVE StrLess(_, _)
StrLess(a, b) ==
  IF b = <<>> THEN FALSE
  ELSE IF a = <<>> THEN TRUE
  ELSE IF a[1] = b[1] THEN StrLess(Tail(a), Tail(b))
  ELSE CharCode[a[1]] < CharCode[b[1]]

Perms(n) == { p \in [1..n -> 1..n] : \A i, j \in 1..n : i # j => p[i] # p[j] }

\* sort_values('bitscore', ascending=False) on a column read with dtype=str:
\* the rows in descending string order; the default quicksort is not stable,
\* so rows with equal bitscore may come out in any order
SortValuesDesc(rows) ==
  { [i \in 1..Len(rows) |-> rows[p[i]]] :
      p \in { q \in Perms(Len(rows)) :
                \A i, j \in 1..Len(rows) :
                   i < j => ~StrLess(rows[q[i]].bitscore, rows[q[j]].bitscore) } }

\* drop_duplicates('protein_id'): the first row of every protein_id
RECURSIVE DropDuplicates(_, _)
DropDuplicates(rows, seen) ==
  IF rows = <<>> THEN <<>>
  ELSE IF Head(rows).protein_id \in seen
       THEN DropDuplicates(Tail(rows), seen)
       ELSE <<Head(rows)>> \o DropDuplicates(Tail(rows), seen \cup {Head(rows).protein_id})

\* read_csv(...).sort_values('bitscore', ascending=False).drop_duplicates('protein_id')
BestHits(file) == { DropDuplicates(sorted, {}) : sorted \in SortValuesDesc(file) }

\* sseqid.strip().split('|')[-1]
parse_card_gene_name(sseqid) ==
  LET parts == Split(Strip(sseqid), "|") IN parts[Len(parts)]

\* the whole value of ID= taken as the gene number
parse_gff_attributes_whole_id(attr) ==
  LET byId == Split(attr, "ID=")
  IN  IF Len(byId) < 2 THEN <<>> ELSE Split(byId[2], ";")[1]

\* attr_string.split('ID=')[1].split(';')[0].split('_')[-1], "" on IndexError
parse_gff_attributes(attr) ==
  LET byId == Split(attr, "ID=")
  IN  IF Len(byId) < 2 THEN <<>>
      ELSE LET toks == Split(Split(byId[2], ";")[1], "_") IN toks[Len(toks)]

\* protein_id.split('_')[0]: the text before the first '_'
SplitFirstContig(pid) == Split(pid, "_")[1]

\* protein_id.rsplit('_', n=1)[0]
RSplitContig(pid) ==
  IF \A i \in 1..Len(pid) : pid[i] # "_" THEN pid
  ELSE LET k == CHOOSE i \in 1..Len(pid) : pid[i] = "_" /\ \A j \in (i+1)..Len(pid) : pid[j] # "_"
       IN  SubSeq(pid, 1, k - 1)

\* accession.map(hmrg_map).fillna(accession): map() gives a missing value for an
\* accession that is not a key and for a key whose value is missing, and
\* fillna() puts the accession in both places
Translate(m, acc) ==
  IF DictHas(m, acc) /\ DictGet(m, acc) # NaN THEN DictGet(m, acc) ELSE acc

Annotation(hit, name, type) ==
  [protein_id |-> hit.protein_id, pident |-> hit.pident, evalue |-> hit.evalue,
   bitscore |-> hit.bitscore, gene_name |-> name, gene_type |-> type,
   contig_id |-> RSplitContig(hit.protein_id)]

AnnotateCard(best) ==
  [i \in 1..Len(best) |-> Annotation(best[i], parse_card_gene_name(best[i].sseqid), ARG)]

AnnotateBacmet(best, m) ==
  [i \in 1..Len(best) |->
     Annotation(best[i], Translate(m, parse_hmrg_accession(best[i].sseqid)), HMRG)]

\* the contigs whose annotations include 'ARG', with or without 'HMRG'
colocalized_contigs_arg_only(ann) ==
  { c \in { ann[i].contig_id : i \in 1..Len(ann) } :
      \E i \in 1..Len(ann) : ann[i].contig_id = c /\ ann[i].gene_type = ARG }

\* the contigs whose annotations include both 'ARG' and 'HMRG'
colocalized_contigs(ann) ==
  { c \in { ann[i].contig_id : i \in 1..Len(ann) } :
      /\ \E i \in 1..Len(ann) : ann[i].contig_id = c /\ ann[i].gene_type = ARG
      /\ \E i \in 1..Len(ann) : ann[i].contig_id = c /\ ann[i].gene_type = HMRG }

IsCds(r) == r.type = <<"CDS">>

CdsFeature(r) ==
  [contig_id |-> r.contig_id, start |-> r.start, end |-> r.end, strand |-> r.strand,
   protein_id |-> r.contig_id \o <<"_">> \o parse_gff_attributes(r.attributes)]

DetailRow(f, type, name, pident, evalue, bitscore) ==
  [contig_id |-> f.contig_id, protein_id |-> f.protein_id, start |-> f.start,
   end |-> f.end, strand |-> f.strand, gene_type |-> type, gene_name |-> name,
   pident |-> pident, evalue |-> evalue, bitscore |-> bitscore]

\* pd.merge(df_target_gff, df_annotations, on='protein_id', how='left') followed
\* by gene_type.fillna('Other'): left order kept, one row per matching annotation
RECURSIVE MergeLeft(_, _)
MergeLeft(left, ann) ==
  IF left = <<>> THEN <<>>
  ELSE LET f == Head(left)
           m == SelectSeq(ann, LAMBDA a : a.protein_id = f.protein_id)
       IN  (IF m = <<>>
            THEN << DetailRow(f, Other, NaN, NaN, NaN, NaN) >>
            ELSE [i \in 1..Len(m) |->
                    DetailRow(f, m[i].gene_type, m[i].gene_name, m[i].pident,
                              m[i].evalue, m[i].bitscore)])
           \o MergeLeft(Tail(left), ann)

\* the order of a sort on contig_id alone
ContigStartLess_contig_only(a, b) == StrLess(a.contig_id, b.contig_id)

\* sort_values(by=[contig, 'start']): a stable sort on the two keys
ContigStartLess(a, b) ==
  \/ StrLess(a.contig_id, b.contig_id)
  \/ (a.contig_id = b.contig_id /\ a.start < b.start)

SortByContigStart(rows) ==
  LET n == Len(rows)
      pos(i) == 1 + Cardinality({ j \in 1..n :
                     \/ ContigStartLess(rows[j], rows[i])
                     \/ (~ContigStartLess(rows[i], rows[j]) /\ j < i) })
  IN  [k \in 1..n |-> rows[CHOOSE i \in 1..n : pos(i) = k]]

\* steps 3 to 5 of analyze_sample, from the two best-hit tables
analyze_sample(cardBest, bacmetBest, g, m) ==
  LET ann    == AnnotateCard(cardBest) \o AnnotateBacmet(bacmetBest, m)
      coloc  == colocalized_contigs(ann)
      cds    == SelectSeq(g, IsCds)
      feats  == [i \in 1..Len(cds) |-> CdsFeature(cds[i])]
      target == SelectSeq(feats, LAMBDA f : f.contig_id \in coloc)
  IN  IF coloc = {} THEN NoFile
      ELSE IF g = <<>> THEN NoFile
      ELSE [exists |-> TRUE, rows |-> SortByContigStart(MergeLeft(target, ann))]

\* ================================================ 12_analyze_abundance_v3
\* what read_csv makes of a text cell: an empty cell and the default NA
\* markers are missing values
NaValues == { <<>>, <<"NA">>, <<"NaN">>, <<"nan">>, <<"null">>, <<"NULL">>, <<"None">>, <<"N", "/", "A">> }

ReadText(x) == IF x \in NaValues THEN NaN ELSE x

\* pd.read_csv(details_file, sep='\t')
ReadDetails(file) ==
  [i \in 1..Len(file.rows) |->
     [file.rows[i] EXCEPT !.contig_id = ReadText(@), !.protein_id = ReadText(@),
                          !.gene_name = ReadText(@)]]

\* Series.unique(): the distinct values in first-seen order
RECURSIVE Unique(_, _)
Unique(xs, seen) ==
  IF xs = <<>> THEN <<>>
  ELSE IF Head(xs) \in seen THEN Unique(Tail(xs), seen)
       ELSE <<Head(xs)>> \o Unique(Tail(xs), seen \cup {Head(xs)})

Range(xs) == { xs[i] : i \in 1..Len(xs) }

\* df[df.gene_type.isin(['ARG','HMRG'])].dropna(subset=['gene_name'])
DfAnnotated(df) ==
  SelectSeq(df, LAMBDA r : r.gene_type \in {ARG, HMRG} /\ r.gene_name # NaN)

\* the gene_name column of the rows of one gene_type on one contig
NamesOn(df, c, type) ==
  LET sel == SelectSeq(DfAnnotated(df), LAMBDA r : r.gene_type = type /\ r.contig_id = c)
  IN  [i \in 1..Len(sel) |-> sel[i].gene_name]

\* the index of groupby('contig_id') over the rows of one gene_type
ContigsWith(df, type) ==
  { r.contig_id : r \in { x \in Range(DfAnnotated(df)) : x.gene_type = type /\ x.contig_id # NaN } }

\* set(itertools.product(arg_list, hmrg_list)) for one contig
all_pairs_on_contig(df, c) ==
  Range(Unique(NamesOn(df, c, ARG), {})) \X Range(Unique(NamesOn(df, c, HMRG), {}))

\* pair_counter with every (ARG row, HMRG row) combination of a contig counted
pair_counter_per_row(df) ==
  LET both == ContigsWith(df, ARG) \cap ContigsWith(df, HMRG)
      rowsOf(c, type, name) ==
        Cardinality({ i \in 1..Len(NamesOn(df, c, type)) : NamesOn(df, c, type)[i] = name })
      RECURSIVE Sum(_, _)
      Sum(cs, p) ==
        IF cs = {} THEN 0
        ELSE LET c == CHOOSE x \in cs : TRUE
             IN  rowsOf(c, ARG, p[1]) * rowsOf(c, HMRG, p[2]) + Sum(cs \ {c}, p)
      seen == UNION { Range(NamesOn(df, c, ARG)) \X Range(NamesOn(df, c, HMRG)) : c \in both }
  IN  [p \in seen |-> Sum(both, p)]

\* the Counter after the loop over args_per_contig
pair_counter(df) ==
  LET both == ContigsWith(df, ARG) \cap ContigsWith(df, HMRG)
      seen == UNION { all_pairs_on_contig(df, c) : c \in both }
  IN  [p \in seen |-> Cardinality({ c \in both : p \in all_pairs_on_contig(df, c) })]

\* sort_values(ascending=False) on the counts of a counter: every order of its
\* keys in which the counts descend (equal counts in any order)
DescendingOrders(counter) ==
  LET keys == DOMAIN counter
      n == Cardinality(keys)
  IN  { q \in [1..n -> keys] :
          /\ \A i, j \in 1..n : i # j => q[i] # q[j]
          /\ \A i, j \in 1..n : i < j => counter[q[i]] >= counter[q[j]] }

\* the pair abundance reports process_pair_abundance may write
process_pair_abundance(file) ==
  LET counter == pair_counter(ReadDetails(file))
  IN  IF DOMAIN counter = {} THEN {NoFile}
      ELSE { [exists |-> TRUE,
              rows |-> [i \in 1..Len(o) |->
                          [arg_gene_name |-> o[i][1], hmrg_gene_name |-> o[i][2],
                           shared_contig_count |-> counter[o[i]]]]] :
               o \in DescendingOrders(counter) }

\* the gene_name column taken from one hit per protein_id only
HmrgNamesPerProtein(rawHits, m) ==
  LET kept == DropDuplicates(rawHits, {})
  IN  [i \in 1..Len(kept) |-> Translate(m, parse_hmrg_accession_abundance(kept[i].sseqid))]

\* the gene_name column of process_hmrg_abundance
HmrgNames(rawHits, m) ==
  [i \in 1..Len(rawHits) |-> Translate(m, parse_hmrg_accession_abundance(rawHits[i].sseqid))]

\* gene_name.value_counts()
value_counts(names) ==
  [v \in Range(names) |-> Cardinality({ i \in 1..Len(names) : names[i] = v })]

\* the HMRG abundance reports process_hmrg_abundance may write
process_hmrg_abundance(rawHits, m) ==
  LET counter == value_counts(HmrgNames(rawHits, m))
  IN  IF rawHits = <<>> THEN {NoFile}
      ELSE { [exists |-> TRUE,
              rows |-> [i \in 1..Len(o) |->
                          [hmrg_gene_name |-> o[i], abundance_count |-> counter[o[i]]]]] :
               o \in DescendingOrders(counter) }

\* ================================================== one sample, end to end
K1 == <<"k", "_", "1">>
K2 == <<"k", "_", "2">>

Hit(pid, sseqid, score) ==
  [protein_id |-> pid, sseqid |-> sseqid, pident |-> <<"90">>, evalue |-> <<"1e-5">>,
   bitscore |-> score]

\* rows of <sample>_card_hits.m8
CardRows ==
  { Hit(pid, sseqid, score) :
      pid \in { K1 \o <<"_", "1">>, K2 \o <<"_", "1">> },
      sseqid \in { <<"gb", "|", "ceoB">> },
      score \in { <<"9">>, <<"1", "0">> } }

\* rows of <sample>_bacmet_hits.tsv
BacmetRows ==
  { Hit(pid, sseqid, <<"9">>) :
      pid \in { K1 \o <<"_", "1">>, K1 \o <<"_", "2">> },
      sseqid \in { <<"BAC", "|", "acrF", "|", "tr", "|", "Q5">>,
                   <<"gi", "|", "1", "|", "ref", "|", "WP", ".", "1", "|">>,
                   <<"ref", "|">> } }

Gff(contig, type, start, attributes) ==
  [contig_id |-> contig, type |-> type, start |-> start, end |-> start + 1,
   strand |-> <<"+">>, attributes |-> attributes]

\* rows of <sample>_predicted_genes.gff
GffRows ==
  { Gff(K1, <<"CDS">>, 1, <<"ID=", "1", "_", "1", ";">>),
    Gff(K1, <<"CDS">>, 2, <<"ID=", "1", "_", "2", ";">>),
    Gff(K2, <<"CDS">>, 1, <<"ID=", "2", "_", "1", ";">>),
    Gff(K1, <<"CDS">>, 3, <<"note">>),
    Gff(K1, <<"gene">>, 1, <<"ID=", "1", "_", "1", ";">>) }

\* the rows of bacmet_annotation_map.tsv as 10.5 writes them
HmrgMapFile ==
  << [key |-> <<"Q5">>, value |-> <<"acrF">>],
     [key |-> <<"WP">>, value |-> <<"NA">>] >>

\* bacmet_annotation_map.tsv as main() loads it: read_csv(dtype=str) reads the
\* default NA markers as missing values
HmrgTable ==
  [i \in 1..Len(HmrgMapFile) |-> [HmrgMapFile[i] EXCEPT !.value = ReadText(@)]]

Init ==
  /\ HeaderIdle
  /\ MapIdle
  /\ \E a \in 0..MaxRows : \E b \in 0..(MaxRows - a) : \E c \in 0..(MaxRows - a - b) :
       /\ card \in [1..a -> CardRows]
       /\ bacmet \in [1..b -> BacmetRows]
       /\ gff \in [1..c -> GffRows]
  /\ hmrg_map = HmrgTable
  /\ df_annotations = <<>>
  /\ details = NoFile
  /\ pairs = NoFile
  /\ hmrgAbundance = NoFile
  /\ samplePc = "start"
  /\ ReportIdle
  /\ RunIdle
  /\ PlotterIdle

\* 11_run_colocalization_analysis_v6.analyze_sample; reading an empty hit file
\* raises EmptyDataError, which the handler's except clause swallows
AnalyzeSample ==
  /\ samplePc = "start"
  /\ samplePc' = "analyzed"
  /\ IF card = <<>> \/ bacmet = <<>>
     THEN /\ details' = NoFile
          /\ UNCHANGED df_annotations
     ELSE \E cardBest \in BestHits(card) : \E bacmetBest \in BestHits(bacmet) :
            /\ df_annotations' = AnnotateCard(cardBest) \o AnnotateBacmet(bacmetBest, hmrg_map)
            /\ details' = analyze_sample(cardBest, bacmetBest, gff, hmrg_map)
  /\ UNCHANGED <<card, bacmet, gff, hmrg_map, pairs, hmrgAbundance>>
  /\ UNCHANGED <<headerVars, mapVars, reportVars, runVars, plotterVars>>

\* 12_analyze_abundance_v3.main runs both tasks for every sample that has a
\* detailed report
ProcessPairAbundance ==
  /\ samplePc = "analyzed"
  /\ details.exists
  /\ pairs' \in process_pair_abundance(details)
  /\ samplePc' = "pairs_done"
  /\ UNCHANGED <<card, bacmet, gff, hmrg_map, df_annotations, details, hmrgAbundance>>
  /\ UNCHANGED <<headerVars, mapVars, reportVars, runVars, plotterVars>>

ProcessHmrgAbundance ==
  /\ samplePc = "pairs_done"
  /\ hmrgAbundance' \in process_hmrg_abundance(bacmet, hmrg_map)
  /\ samplePc' = "done"
  /\ UNCHANGED <<card, bacmet, gff, hmrg_map, df_annotations, details, pairs>>
  /\ UNCHANGED <<headerVars, mapVars, reportVars, runVars, plotterVars>>

Next == AnalyzeSample \/ ProcessPairAbundance \/ ProcessHmrgAbundance

Spec == Init /\ [][Next]_vars

\* -------------------------------------------------- claims on one sample
\* the value of a string of decimal digits
RECURSIVE DecValue(_)
DecValue(digits) ==
  IF digits = <<>> THEN 0
  ELSE 10 * DecValue(SubSeq(digits, 1, Len(digits) - 1)) + (CharCode[digits[Len(digits)]] - 48)

Analyzed == samplePc # "start" /\ card # <<>> /\ bacmet # <<>>

KeptRows(pid, type) ==
  { i \in 1..Len(df_annotations) :
      df_annotations[i].protein_id = pid /\ df_annotations[i].gene_type = type }

BestHitIsNumericMax(raw, type) ==
  \A r \in Range(raw) :
     /\ Cardinality(KeptRows(r.protein_id, type)) = 1
     /\ \A i \in KeptRows(r.protein_id, type) : \A q \in Range(raw) :
          q.protein_id = r.protein_id =>
             DecValue(q.bitscore) <= DecValue(df_annotations[i].bitscore)

\* C1 as claimed: best-hit selection keeps exactly one row per protein_id in
\* each gene type, and the kept row's bit_score is the numeric maximum of that
\* protein's bit_scores, also when the scores differ in their number of digits.
C1_BestHitNumericMax ==
  Analyzed => BestHitIsNumericMax(card, ARG) /\ BestHitIsNumericMax(bacmet, HMRG)

\* every CDS feature of the sample joined with the best hits
JoinedFeatures ==
  LET cds == SelectSeq(gff, IsCds)
  IN  MergeLeft([i \in 1..Len(cds) |-> CdsFeature(cds[i])], df_annotations)

JoinedHasBoth(c) ==
  /\ \E r \in Range(JoinedFeatures) : r.contig_id = c /\ r.gene_type = ARG
  /\ \E r \in Range(JoinedFeatures) : r.contig_id = c /\ r.gene_type = HMRG

InReport(c) == \E r \in Range(details.rows) : r.contig_id = c

HitOn(raw, c) == \E r \in Range(raw) : RSplitContig(r.protein_id) = c

CdsOn(c) == \E r \in Range(gff) : IsCds(r) /\ r.contig_id = c

SampleContigs ==
  { r.contig_id : r \in Range(gff) }
    \cup { RSplitContig(r.protein_id) : r \in Range(card) \cup Range(bacmet) }

OneOfEach ==
  /\ Len(gff) = 1 /\ IsCds(gff[1])
  /\ Len(card) = 1 /\ Len(bacmet) = 1

ReportHasOneContig ==
  details.exists /\ Cardinality({ r.contig_id : r \in Range(details.rows) }) = 1

OnePairAtCountOne ==
  /\ pairs.exists
  /\ Len(pairs.rows) = 1
  /\ pairs.rows[1].shared_contig_count = 1

EndToEndResult ==
  /\ samplePc # "start" => ReportHasOneContig
  /\ samplePc \in {"pairs_done", "done"} => OnePairAtCountOne

RECURSIVE SumCounts(_)
SumCounts(rows) ==
  IF rows = <<>> THEN 0 ELSE Head(rows).abundance_count + SumCounts(Tail(rows))

FeatureRows(f) ==
  { i \in 1..Len(details.rows) :
      /\ details.rows[i].contig_id = f.contig_id
      /\ details.rows[i].protein_id = f.protein_id
      /\ details.rows[i].start = f.start
      /\ details.rows[i].end = f.end
      /\ details.rows[i].strand = f.strand }

\* the best hits on a protein_id
HitsOf(pid) == { j \in 1..Len(df_annotations) : df_annotations[j].protein_id = pid }

\* the number of CDS lines of the GFF file that give the feature f
Copies(f) == Cardinality({ i \in 1..Len(gff) : IsCds(gff[i]) /\ CdsFeature(gff[i]) = f })

\* the CDS features on the colocalized contigs
TargetFeatures ==
  { CdsFeature(r) : r \in { x \in Range(gff) :
       IsCds(x) /\ x.contig_id \in colocalized_contigs(df_annotations) } }

IsRowOfHit(row, a) ==
  /\ row.gene_type = a.gene_type
  /\ row.gene_name = a.gene_name
  /\ row.pident = a.pident
  /\ row.evalue = a.evalue
  /\ row.bitscore = a.bitscore

IsUnmatchedRow(row) ==
  /\ row.gene_type = Other
  /\ row.gene_name = NaN
  /\ row.pident = NaN
  /\ row.evalue = NaN
  /\ row.bitscore = NaN

C16_ContigRoundTrip ==
  samplePc # "start" =>
    \A r \in Range(gff) : IsCds(r) =>
      /\ RSplitContig(CdsFeature(r).protein_id) = r.contig_id
      /\ \A j \in HitsOf(CdsFeature(r).protein_id) : df_annotations[j].contig_id = r.contig_id

\* a report on contig k_1 with a feature whose gene number is empty and a
\* feature that carries a hit
C16_Witness ==
  /\ samplePc # "start" /\ details.exists
  /\ \E i \in 1..Len(details.rows) :
       /\ details.rows[i].contig_id = K1
       /\ details.rows[i].protein_id = K1 \o <<"_">>
  /\ \E i \in 1..Len(details.rows) :
       /\ details.rows[i].contig_id = K1
       /\ details.rows[i].gene_type = ARG
       /\ RSplitContig(details.rows[i].protein_id) = K1

\* the gene name the persisted table gives an accession: its value when the
\* accession is a key, the accession itself when it is not
TableNameOf(acc) == IF DictHas(HmrgMapFile, acc) THEN DictGet(HmrgMapFile, acc) ELSE acc

\* C18 as claimed: every HMRG hit's gene_name is the translation table's value
\* for the extracted accession when the accession is a key of the table and
\* the accession itself when it is not, and is never empty; in the detailed
\* annotations as in the HMRG abundance report.
C18_TableValueOrAccession ==
  /\ Analyzed =>
       \A j \in 1..Len(df_annotations) : df_annotations[j].gene_type = HMRG =>
          /\ df_annotations[j].gene_name # <<>>
          /\ \E r \in Range(bacmet) :
               /\ r.protein_id = df_annotations[j].protein_id
               /\ r.bitscore = df_annotations[j].bitscore
               /\ df_annotations[j].gene_name = TableNameOf(parse_hmrg_accession(r.sseqid))
  /\ (samplePc = "done" /\ hmrgAbundance.exists) =>
       /\ { hmrgAbundance.rows[i].hmrg_gene_name : i \in 1..Len(hmrgAbundance.rows) }
            = { TableNameOf(parse_hmrg_accession_abundance(r.sseqid)) : r \in Range(bacmet) }
       /\ \A i \in 1..Len(hmrgAbundance.rows) : hmrgAbundance.rows[i].hmrg_gene_name # <<>>

\* ================================================ 13_prepare_cluster_data_v4
\* sep.join(xs)
RECURSIVE JoinSeq(_, _)
JoinSeq(xs, sep) ==
  IF xs = <<>> THEN <<>>
  ELSE IF Len(xs) = 1 THEN xs[1]
       ELSE xs[1] \o sep \o JoinSeq(Tail(xs), sep)

\* sorted() of a set of gene_type strings: 'ARG' < 'HMRG' < 'Other'
SortedTypes(types) == SelectSeq(<<ARG, HMRG, Other>>, LAMBDA t : t \in types)

GeneTypes(group) == [i \in 1..Len(group) |-> group[i].gene_type]

\* group['gene_name'].dropna()
GeneNames(group) ==
  LET sel == SelectSeq(group, LAMBDA r : r.gene_name # NaN)
  IN  [i \in 1..Len(sel) |-> sel[i].gene_name]

\* aggregate_duplicates with the gene_types joined in first-seen order
aggregate_duplicates_13_unsorted(group) ==
  IF Len(group) = 1 THEN group[1]
  ELSE [group[1] EXCEPT
          !.gene_type = JoinSeq(Unique(GeneTypes(group), {}), <<"/">>),
          !.gene_name = JoinSeq(Unique(GeneNames(group), {}), <<" ", "/", " ">>)]

\* aggregate_duplicates of 13_prepare_cluster_data_v4
aggregate_duplicates_13(group) ==
  IF Len(group) = 1 THEN group[1]
  ELSE [group[1] EXCEPT
          !.gene_type = JoinSeq(SortedTypes(Range(GeneTypes(group))), <<"/">>),
          !.gene_name = JoinSeq(Unique(GeneNames(group), {}), <<" ", "/", " ">>)]

\* the groups of groupby('protein_id'): keys ascending, missing keys dropped,
\* the rows of a group in frame order
groupby_protein_id(df) ==
  LET ids  == { r.protein_id : r \in Range(df) } \ {NaN}
      n    == Cardinality(ids)
      keys == CHOOSE q \in [1..n -> ids] : \A i, j \in 1..n : i < j => StrLess(q[i], q[j])
  IN  [i \in 1..n |-> SelectSeq(df, LAMBDA r : r.protein_id = keys[i])]

\* one row of output_df
PlotRow(r) ==
  [ID |-> r.protein_id, source |-> r.contig_id, start |-> r.start, end |-> r.end,
   strand |-> r.strand, gene_type |-> r.gene_type, gene_name |-> r.gene_name]

\* output_df.sort_values(by=['source', 'start']): a stable sort on the two keys
SourceStartLess(a, b) ==
  \/ StrLess(a.source, b.source)
  \/ (a.source = b.source /\ a.start < b.start)

SortBySourceStart(rows) ==
  LET n == Len(rows)
      pos(i) == 1 + Cardinality({ j \in 1..n :
                     \/ SourceStartLess(rows[j], rows[i])
                     \/ (~SourceStartLess(rows[i], rows[j]) /\ j < i) })
  IN  [k \in 1..n |-> rows[CHOOSE i \in 1..n : pos(i) = k]]

\* process_sample of 13_prepare_cluster_data_v4 on an existing details file
prepare_cluster_data(file) ==
  LET df_details   == ReadDetails(file)
      df_annotated == SelectSeq(df_details, LAMBDA r : r.gene_type # Other)
      df_other     == SelectSeq(df_details, LAMBDA r : r.gene_type = Other)
      groups       == groupby_protein_id(df_annotated)
      deduplicated == [i \in 1..Len(groups) |-> aggregate_duplicates_13(groups[i])]
      final        == deduplicated \o df_other
  IN  IF df_details = <<>> THEN NoFile
      ELSE [exists |-> TRUE,
            rows |-> SortBySourceStart([i \in 1..Len(final) |-> PlotRow(final[i])])]

\* ================================================ 14_filter_top_clusters-v3
\* gene_counts[type] of one contig: the number of its rows of that gene_type
GeneCount(df, c, type) ==
  Cardinality({ i \in 1..Len(df) : df[i].contig_id = c /\ df[i].gene_type = type })

\* density_score with the two counts added
density_score_sum(df) ==
  [c \in { r.contig_id : r \in Range(df) } \ {NaN} |->
     GeneCount(df, c, ARG) + GeneCount(df, c, HMRG)]

\* gene_counts['density_score'], indexed by contig_id
density_score(df) ==
  [c \in { r.contig_id : r \in Range(df) } \ {NaN} |->
     GeneCount(df, c, ARG) * GeneCount(df, c, HMRG)]

\* top_contigs_df: the contigs in descending score order (equal scores in any
\* order), those of score 0 filtered out
top_contigs_df(df) ==
  { SelectSeq(o, LAMBDA c : density_score(df)[c] > 0) :
      o \in DescendingOrders(density_score(df)) }

\* set(top_contigs_df.head(k).index)
Head_k(ranked, k) == { ranked[i] : i \in 1..(IF k < Len(ranked) THEN k ELSE Len(ranked)) }

\* aggregate_duplicates of 14_filter_top_clusters-v3
aggregate_duplicates_14(group) ==
  IF Len(group) = 1 THEN group[1]
  ELSE [group[1] EXCEPT
          !.gene_type = JoinSeq(SortedTypes(Range(GeneTypes(group))), <<"/">>),
          !.gene_name = JoinSeq(Unique(GeneNames(group), {}), <<" ", "/", " ">>)]

\* the plot table for one choice of target_contigs
top_plot_data(df_details, target_contigs) ==
  LET df_plot_data == SelectSeq(df_details, LAMBDA r : r.contig_id \in target_contigs)
      groups       == groupby_protein_id(df_plot_data)
      deduplicated == [i \in 1..Len(groups) |-> aggregate_duplicates_14(groups[i])]
  IN  [exists |-> TRUE,
       rows |-> SortBySourceStart([i \in 1..Len(deduplicated) |-> PlotRow(deduplicated[i])])]

\* the plot tables process_sample of 14_filter_top_clusters-v3 may write for an
\* existing details file when NUM_TOP_CONTIGS_TO_PLOT is k
filter_top_clusters(file, k) ==
  LET df_details == ReadDetails(file)
  IN  IF df_details = <<>> THEN {NoFile}
      ELSE IF \A c \in DOMAIN density_score(df_details) : density_score(df_details)[c] = 0
           THEN {NoFile}
           ELSE { top_plot_data(df_details, Head_k(ranked, k)) :
                    ranked \in top_contigs_df(df_details) }

\* ============================================ the report scripts on one file
\* CDS features of the sample: two proteins on k_1, one of them predicted twice
\* under the same ID, and one protein on k_2
ReportFeatures ==
  { CdsFeature(Gff(K1, <<"CDS">>, 1, <<"ID=", "1", "_", "1", ";">>)),
    CdsFeature(Gff(K1, <<"CDS">>, 2, <<"ID=", "1", "_", "2", ";">>)),
    CdsFeature(Gff(K1, <<"CDS">>, 3, <<"ID=", "1", "_", "1", ";">>)),
    CdsFeature(Gff(K2, <<"CDS">>, 1, <<"ID=", "2", "_", "1", ";">>)) }

\* rows analyze_sample writes for a feature: an ARG hit, an HMRG hit, an HMRG
\* hit whose gene name came out empty, or no hit
ReportRows ==
  UNION { { DetailRow(f, ARG, <<"ceoB">>, <<"90">>, <<"1e-5">>, <<"9">>),
            DetailRow(f, HMRG, <<"acrF">>, <<"90">>, <<"1e-5">>, <<"9">>),
            DetailRow(f, HMRG, <<>>, <<"90">>, <<"1e-5">>, <<"9">>),
            DetailRow(f, Other, NaN, NaN, NaN, NaN) } : f \in ReportFeatures }

\* a row may follow the rows of a details file: the file is written sorted by
\* contig and start, and the left join leaves a protein_id either with its hits
\* or with Other rows
MayFollow(rows, r) ==
  /\ rows = <<>> \/ ~ContigStartLess(r, rows[Len(rows)])
  /\ \A i \in 1..Len(rows) :
       rows[i].protein_id = r.protein_id => ((rows[i].gene_type = Other) <=> (r.gene_type = Other))

\* the details files of at most n rows
RECURSIVE DetailFiles(_)
DetailFiles(n) ==
  IF n = 0 THEN { <<>> }
  ELSE LET shorter == DetailFiles(n - 1)
           longest == { rows \in shorter : Len(rows) = n - 1 }
       IN  shorter \cup { Append(rows, r) : <<rows, r>> \in
                            { x \in longest \X ReportRows : MayFollow(x[1], x[2]) } }

InitReports ==
  /\ HeaderIdle
  /\ MapIdle
  /\ card = <<>>
  /\ bacmet = <<>>
  /\ gff = <<>>
  /\ hmrg_map = HmrgTable
  /\ df_annotations = <<>>
  /\ details \in { [exists |-> TRUE, rows |-> rows] : rows \in DetailFiles(MaxDetailRows) }
  /\ pairs = NoFile
  /\ hmrgAbundance = NoFile
  /\ samplePc = "analyzed"
  /\ ReportIdle
  /\ RunIdle
  /\ PlotterIdle

\* 13_prepare_cluster_data_v4.process_sample
PrepareClusterData ==
  /\ samplePc = "pairs_done"
  /\ reportPc = "idle"
  /\ details.exists
  /\ plotData' = prepare_cluster_data(details)
  /\ reportPc' = "prepared"
  /\ UNCHANGED <<topK, topPlotData>>
  /\ UNCHANGED <<headerVars, mapVars, sampleVars, runVars, plotterVars>>

\* 14_filter_top_clusters-v3.process_sample, for a configured
\* NUM_TOP_CONTIGS_TO_PLOT
FilterTopClusters ==
  /\ reportPc = "prepared"
  /\ details.exists
  /\ \E k \in 1..MaxTopContigs :
       /\ topK' = k
       /\ topPlotData' \in filter_top_clusters(details, k)
  /\ reportPc' = "filtered"
  /\ UNCHANGED plotData
  /\ UNCHANGED <<headerVars, mapVars, sampleVars, runVars, plotterVars>>

NextReports == ProcessPairAbundance \/ PrepareClusterData \/ FilterTopClusters

SpecReports == InitReports /\ [][NextReports]_vars

\* ------------------------------------------- claims on the report scripts
\* the details file as the report scripts read it
DetailsRead == ReadDetails(details)

DetailContigs == { r.contig_id : r \in Range(DetailsRead) }

\* the contig carries a row of this gene_type and this gene_name
Carries(c, type, name) ==
  \E r \in Range(DetailsRead) : r.contig_id = c /\ r.gene_type = type /\ r.gene_name = name

AnnotatedGroup(p) ==
  SelectSeq(DetailsRead, LAMBDA r : r.protein_id = p /\ r.gene_type # Other)

AnnotatedIds == { r.protein_id : r \in { x \in Range(DetailsRead) : x.gene_type # Other } }

\* the merged gene_type of a group: its distinct types, sorted, '/'-joined
MergedType(g) ==
  IF \A i \in 1..Len(g) : g[i].gene_type = ARG THEN ARG
  ELSE IF \A i \in 1..Len(g) : g[i].gene_type = HMRG THEN HMRG
       ELSE <<"ARG", "/", "HMRG">>

\* the merged gene_name of a group: its distinct non-empty names in first-seen
\* order, ' / '-joined
MergedName(g) == JoinSeq(Unique(GeneNames(g), {}), <<" ", "/", " ">>)

\* the plot table has exactly one row for the protein, positioned as the first
\* row of its group and, for a group of several rows, carrying the merged type
\* and name
MergedOnce(table, p) ==
  LET g == AnnotatedGroup(p)
      at == { i \in 1..Len(table.rows) : table.rows[i].ID = p }
  IN  /\ Cardinality(at) = 1
      /\ \A i \in at :
           /\ table.rows[i].source = g[1].contig_id
           /\ table.rows[i].start = g[1].start
           /\ table.rows[i].end = g[1].end
           /\ table.rows[i].strand = g[1].strand
           /\ Len(g) > 1 => /\ table.rows[i].gene_type = MergedType(g)
                            /\ table.rows[i].gene_name = MergedName(g)

\* the contigs of the top-contig plot table
Selected == IF topPlotData.exists THEN { r.source : r \in Range(topPlotData.rows) } ELSE {}

\* C7: after the merge of 13_prepare_cluster_data_v4, and after that of
\* 14_filter_top_clusters-v3 on the selected contigs, every protein_id among
\* the annotated rows has exactly one row; a group of several rows is merged to
\* the sorted '/'-joined distinct gene_types and the ' / '-joined distinct
\* non-empty gene_names in first-seen order, with contig, start, end and strand
\* of the group's first row
C7_MergedAnnotations ==
  /\ plotData.exists => \A p \in AnnotatedIds : MergedOnce(plotData, p)
  /\ topPlotData.exists =>
       \A p \in AnnotatedIds :
         AnnotatedGroup(p)[1].contig_id \in Selected => MergedOnce(topPlotData, p)

\* an ARG row ceoB and an HMRG row acrF of one protein_id, at different starts,
\* merged in both plot tables to ARG/HMRG and 'ceoB / acrF' at the first start
C7_Witness ==
  /\ plotData.exists /\ topPlotData.exists
  /\ \E i, j \in 1..Len(DetailsRead) :
       /\ i < j
       /\ DetailsRead[i].protein_id = DetailsRead[j].protein_id
       /\ DetailsRead[i].start < DetailsRead[j].start
       /\ DetailsRead[i].gene_type = ARG /\ DetailsRead[i].gene_name = <<"ceoB">>
       /\ DetailsRead[j].gene_type = HMRG /\ DetailsRead[j].gene_name = <<"acrF">>
       /\ \A t \in {plotData, topPlotData} :
            \E k \in 1..Len(t.rows) :
              /\ t.rows[k].ID = DetailsRead[i].protein_id
              /\ t.rows[k].start = DetailsRead[i].start
              /\ t.rows[k].gene_type = <<"ARG", "/", "HMRG">>
              /\ t.rows[k].gene_name = <<"ceoB", " ", "/", " ", "acrF">>

\* (number of ARG rows) x (number of HMRG rows) of a contig of the details file
Score(c) ==
  Cardinality({ i \in 1..Len(DetailsRead) :
                  DetailsRead[i].contig_id = c /\ DetailsRead[i].gene_type = ARG })
  * Cardinality({ i \in 1..Len(DetailsRead) :
                    DetailsRead[i].contig_id = c /\ DetailsRead[i].gene_type = HMRG })

\* C8: the contigs selected for the top-contig plot table all have a positive
\* score (number of ARG rows) x (number of HMRG rows), there are at most K of
\* them, and no unselected contig of positive score has a strictly higher
\* score than a selected one
C8_DensityRanking ==
  reportPc = "filtered" =>
    /\ \A c \in Selected : Score(c) > 0
    /\ Cardinality(Selected) <= topK
    /\ \A u \in DetailContigs \ Selected : \A c \in Selected :
         Score(u) > 0 => Score(u) <= Score(c)

\* K = 1 with two contigs of different positive scores: the higher one is
\* selected, the other is not
C8_Witness ==
  /\ reportPc = "filtered" /\ topK = 1
  /\ \E c \in Selected : \E u \in DetailContigs \ Selected :
       Score(u) > 0 /\ Score(u) < Score(c)

\* the distinct protein_ids of the annotated rows of a frame
AnnotatedIdsOf(df) == { r.protein_id : r \in { x \in Range(df) : x.gene_type # Other } }

\* the plot table holds every Other row of the frame as it was read, as many
\* times as the frame does, and holds every annotated row whose protein_id no
\* other annotated row has as it was read, once
RowsLeftUnchanged(df, table) ==
  \A r \in Range(df) :
    /\ r.gene_type = Other =>
         Cardinality({ i \in 1..Len(table.rows) : table.rows[i] = PlotRow(r) })
           = Cardinality({ i \in 1..Len(df) : df[i].gene_type = Other /\ PlotRow(df[i]) = PlotRow(r) })
    /\ (r.gene_type # Other
          /\ Cardinality({ i \in 1..Len(df) :
                 df[i].gene_type # Other /\ df[i].protein_id = r.protein_id }) = 1) =>
         /\ Cardinality({ i \in 1..Len(table.rows) : table.rows[i].ID = r.protein_id }) = 1
         /\ \E i \in 1..Len(table.rows) : table.rows[i] = PlotRow(r)

\* the plot table has one row per distinct annotated protein_id and one row
\* per Other row of the frame
RowCountAdds(df, table) ==
  Len(table.rows) = Cardinality(AnnotatedIdsOf(df))
                      + Cardinality({ i \in 1..Len(df) : df[i].gene_type = Other })

\* the rows of the details file that 14_filter_top_clusters-v3 keeps
SelectedRows == SelectSeq(DetailsRead, LAMBDA r : r.contig_id \in Selected)

\* the merge of 13_prepare_cluster_data_v4 leaves Other rows and annotated
\* rows of a unique protein_id unchanged
MergeFrame13 ==
  plotData.exists =>
    RowsLeftUnchanged(DetailsRead, plotData) /\ RowCountAdds(DetailsRead, plotData)

\* the same of the merge of 14_filter_top_clusters-v3
MergeFrame14 ==
  topPlotData.exists =>
    RowsLeftUnchanged(SelectedRows, topPlotData) /\ RowCountAdds(SelectedRows, topPlotData)

\* C21 as claimed: the duplicate-annotation merge of both plot scripts leaves
\* unchanged every row of gene_type Other, also when several Other rows share
\* a protein_id, and every annotated row whose protein_id is unique among the
\* annotated rows; the number of rows written is the number of distinct
\* annotated protein_ids plus the number of Other rows.
C21_MergeLeavesOthersAlone == MergeFrame13 /\ MergeFrame14

\* ================================== process_header on bracketed headers
\* what stands before the gene annotation of a header: a db-code accession,
\* the four-field internal form, a header no accession resolves from, nothing
HeaderStarts ==
  { <<"ref", "|", "A", ".", "1", "|">>,
    <<"B", "|", "g", "|", "1", "|", "A">>,
    <<"gi", "|", "1">>,
    <<>> }

\* an optional GN= field
GNFields == { <<>>, <<" ", "GN", "=", "h">> }

\* what a header ends in: nothing, a bracketed token, one followed by blanks,
\* one nested in another at its start or at its end, one followed by text
HeaderEnds ==
  { <<>>,
    <<" ", "[", "g", "]">>,
    <<" ", "[", "g", "]", " ">>,
    <<" ", "[", "g", " ", "[", "h", "]", "]">>,
    <<" ", "[", "[", "g", "]", " ", "h", "]">>,
    <<" ", "[", "g", "]", " ", "h">> }

InitGeneName ==
  /\ header \in { a \o b \o c : a \in HeaderStarts, b \in GNFields, c \in HeaderEnds }
  /\ parsed = [accession |-> Unset, gene_name |-> Unset]
  /\ accColoc = Unset
  /\ accAbund = Unset
  /\ MapIdle
  /\ SampleIdle
  /\ ReportIdle
  /\ RunIdle
  /\ PlotterIdle

SpecGeneName == InitGeneName /\ [][NextHeader]_vars

\* the closing brackets minus the opening brackets of s[i..e]
BracketBalance(s, i, e) ==
  Cardinality({ k \in i..e : s[k] = "]" }) - Cardinality({ k \in i..e : s[k] = "[" })

\* the header ends, blanks aside, in "]"
EndsInBracket(s) == Strip(s) # <<>> /\ Strip(s)[Len(Strip(s))] = "]"

\* the text between the final "]" of the header and the "[" that it closes
TrailingBracketContent(s) ==
  LET t == Strip(s)
      e == Len(t)
      o == CHOOSE i \in 1..e :
             /\ t[i] = "["
             /\ BracketBalance(t, i, e) = 0
             /\ \A j \in (i+1)..e : BracketBalance(t, j, e) > 0
  IN  SubSeq(t, o + 1, e - 1)

\* C11 as claimed: for every header that ends in a bracketed token,
\* process_header returns the content of that token as gene_name, whatever
\* GN= field or '|'-delimited fields the header also contains.
C11_TrailingBracketIsGeneName ==
  (parsed.gene_name # Unset /\ EndsInBracket(header)) =>
     parsed.gene_name = TrailingBracketContent(header)

\* ============================= 11_run_colocalization_analysis_v6.main
\* one sample of the input folder: which of its three files exist, and what
\* they hold
SampleFiles(hasBacmet, hasGff, c, b, g) ==
  [hasBacmet |-> hasBacmet, hasGff |-> hasGff, card |-> c, bacmet |-> b, gff |-> g]

\* the samples a run is drawn from (a sample is found by its CARD file): one
\* without BacMet file, one without GFF file, one with an empty CARD file, one
\* with an empty GFF file, one whose hits lie on different contigs, and one
\* with a colocalized contig
RunSampleKinds ==
  LET arg1 == << Hit(K1 \o <<"_", "1">>, <<"gb", "|", "ceoB">>, <<"9">>) >>
      arg2 == << Hit(K2 \o <<"_", "1">>, <<"gb", "|", "ceoB">>, <<"9">>) >>
      hmrg == << Hit(K1 \o <<"_", "2">>, <<"BAC", "|", "acrF", "|", "tr", "|", "Q5">>, <<"9">>) >>
      cds  == << Gff(K1, <<"CDS">>, 1, <<"ID=", "1", "_", "1", ";">>),
                 Gff(K1, <<"CDS">>, 2, <<"ID=", "1", "_", "2", ";">>) >>
  IN  { SampleFiles(FALSE, TRUE, arg1, <<>>, cds),
        SampleFiles(TRUE, FALSE, arg1, hmrg, <<>>),
        SampleFiles(TRUE, TRUE, <<>>, hmrg, cds),
        SampleFiles(TRUE, TRUE, arg1, hmrg, <<>>),
        SampleFiles(TRUE, TRUE, arg2, hmrg, cds),
        SampleFiles(TRUE, TRUE, arg1, hmrg, cds) }

\* analyze_sample without the early return on an empty contig set: the report,
\* with no rows, is written all the same
analyze_sample_outcomes_no_return(s, m) ==
  IF ~(s.hasBacmet /\ s.hasGff) THEN { [log |-> "missing", output |-> NoFile] }
  ELSE IF s.card = <<>> \/ s.bacmet = <<>> THEN { [log |-> "error", output |-> NoFile] }
  ELSE { IF s.gff = <<>>
         THEN [log |-> "error", output |-> NoFile]
         ELSE [log |-> "success",
               output |-> [exists |-> TRUE,
                           rows |-> analyze_sample(cb, bb, s.gff, m).rows]] :
           cb \in BestHits(s.card), bb \in BestHits(s.bacmet) }

\* what analyze_sample may log and write for one sample: "missing" for the
\* early return on an absent file, "error" when the try block raised and the
\* except clause printed it, "no_colocalization" for the early return on an
\* empty contig set, "success" with the report
analyze_sample_outcomes(s, m) ==
  IF ~(s.hasBacmet /\ s.hasGff) THEN { [log |-> "missing", output |-> NoFile] }
  ELSE IF s.card = <<>> \/ s.bacmet = <<>> THEN { [log |-> "error", output |-> NoFile] }
  ELSE { IF colocalized_contigs(AnnotateCard(cb) \o AnnotateBacmet(bb, m)) = {}
         THEN [log |-> "no_colocalization", output |-> NoFile]
         ELSE IF s.gff = <<>>
              THEN [log |-> "error", output |-> NoFile]
              ELSE [log |-> "success", output |-> analyze_sample(cb, bb, s.gff, m)] :
           cb \in BestHits(s.card), bb \in BestHits(s.bacmet) }

\* the for-loop of main with an exception of analyze_sample left uncaught: the
\* run ends at that sample
loop_next_uncaught(i, outcome) == IF outcome.log = "error" THEN 0 ELSE i + 1

\* the for-loop of main: analyze_sample has returned, the next sample is due
loop_next(i, outcome) == i + 1

\* analyze_sample(sample, hmrg_map) for every sample a run may hold
RunOutcomes == [s \in RunSampleKinds |-> analyze_sample_outcomes(s, HmrgTable)]

InitRun ==
  /\ HeaderIdle
  /\ MapIdle
  /\ SampleIdle
  /\ ReportIdle
  /\ PlotterIdle
  /\ runSamples \in UNION { [1..n -> RunSampleKinds] : n \in 0..MaxSamples }
  /\ runNext = 1
  /\ runLog = <<>>
  /\ runPc = "looping"

\* one iteration of the loop of main: analyze_sample(sample, hmrg_map)
AnalyzeNextSample ==
  /\ runPc = "looping"
  /\ runNext \in 1..Len(runSamples)
  /\ \E outcome \in RunOutcomes[runSamples[runNext]] :
       /\ runLog' = Append(runLog, outcome)
       /\ runNext' = loop_next(runNext, outcome)
  /\ UNCHANGED <<runSamples, runPc>>
  /\ UNCHANGED <<headerVars, mapVars, sampleVars, reportVars, plotterVars>>

\* the loop is exhausted: main prints its closing lines and returns
FinishRun ==
  /\ runPc = "looping"
  /\ runNext = Len(runSamples) + 1
  /\ runPc' = "finished"
  /\ UNCHANGED <<runSamples, runNext, runLog>>
  /\ UNCHANGED <<headerVars, mapVars, sampleVars, reportVars, plotterVars>>

NextRun == AnalyzeNextSample \/ FinishRun

SpecRun == InitRun /\ [][NextRun]_vars

\* main is a sequential program: a step that can be taken is taken
SpecRunFair == InitRun /\ [][NextRun]_vars /\ WF_vars(NextRun)

\* --------------------------------------------------- claims on the run
\* a required file of sample i is absent
FileMissing(i) == ~(runSamples[i].hasBacmet /\ runSamples[i].hasGff)

\* reading the files of sample i raises: pandas raises EmptyDataError on an
\* empty hit file, and on an empty GFF file once it gets to read it
Raises(i) ==
  /\ ~FileMissing(i)
  /\ \/ runSamples[i].card = <<>>
     \/ runSamples[i].bacmet = <<>>
     \/ (runSamples[i].gff = <<>> /\
         \E c \in Range(runSamples[i].card) : \E b \in Range(runSamples[i].bacmet) :
            RSplitContig(c.protein_id) = RSplitContig(b.protein_id))

\* sample i was reported and skipped without output
SkippedWithoutOutput(i) ==
  /\ runLog[i].log \in {"missing", "error"}
  /\ ~runLog[i].output.exists

\* the run is over and every sample of the list was processed in its turn,
\* those with an absent file or a raised exception skipped without output
RunComplete ==
  /\ runPc = "finished"
  /\ Len(runLog) = Len(runSamples)
  /\ \A i \in 1..Len(runSamples) : (FileMissing(i) \/ Raises(i)) => SkippedWithoutOutput(i)

\* C12: in a run over any list of samples the run always reaches its end with
\* every sample processed, a sample with a missing input file or a raised
\* exception being reported and skipped without output and the samples after
\* it still processed
C12_RunReachesEnd == <>[]RunComplete

\* a finished run in which a sample with a missing file and a sample that
\* raised are followed by a sample whose report was written
C12_Witness ==
  /\ runPc = "finished"
  /\ \E i, j, k \in 1..Len(runSamples) :
       /\ i < k /\ j < k
       /\ FileMissing(i) /\ runLog[i].log = "missing"
       /\ Raises(j) /\ runLog[j].log = "error"
       /\ runLog[k].log = "success" /\ runLog[k].output.exists

\* no contig of sample i has both an ARG hit and an HMRG hit
NoColocalizedContig(i) ==
  ~\E c \in Range(runSamples[i].card) : \E b \in Range(runSamples[i].bacmet) :
      RSplitContig(c.protein_id) = RSplitContig(b.protein_id)

PlotSuffix == <<"_", "top", "_", "10", "_", "contigs", "_", "plot", "_", "data", ".tsv">>

\* INPUT_SUFFIX, "_plot_data.tsv"
INPUT_SUFFIX == <<"_", "plot", "_", "data", ".tsv">>

\* "_final_plot_data.tsv"
FinalSuffix == <<"_", "final", "_", "plot", "_", "data", ".tsv">>

\* fname.startswith(prefix)
StartsWith(fname, prefix) ==
  Len(prefix) <= Len(fname) /\ SubSeq(fname, 1, Len(prefix)) = prefix

\* fname.endswith(suffix)
EndsWith(fname, suffix) ==
  Len(suffix) <= Len(fname) /\ SubSeq(fname, Len(fname) - Len(suffix) + 1, Len(fname)) = suffix

\* sorted(list(set(fname.split('_')[0] for fname in os.listdir(INPUT_FOLDER)
\*                 if fname.endswith(INPUT_SUFFIX))))
list_samples(dir) ==
  LET names == { Split(f, "_")[1] : f \in { x \in DOMAIN dir : EndsWith(x, INPUT_SUFFIX) } }
      n     == Cardinality(names)
  IN  CHOOSE q \in [1..n -> names] : \A i, j \in 1..n : i < j => StrLess(q[i], q[j])

\* the files the loop over os.listdir may stop at for a sample: listdir
\* returns the names in arbitrary order and the loop takes the first match
input_files(dir, sample_name) ==
  { f \in DOMAIN dir : StartsWith(f, sample_name) /\ EndsWith(f, INPUT_SUFFIX) }

\* str(i + 1)
Digit == <<"1", "2", "3", "4", "5">>

\* df[['ID', 'source', 'start', 'end', 'strand']]
Formatted(r) ==
  [ID |-> r.ID, source |-> r.source, start |-> r.start, end |-> r.end, strand |-> r.strand]

\* contig_map with the contigs numbered in sorted order
contig_map_sorted(rows) ==
  LET cs == { rows[i].source : i \in 1..Len(rows) }
  IN  [c \in cs |-> <<"Contig", "_", Digit[1 + Cardinality({ d \in cs : StrLess(d, c) })]>>]

\* {contig_id: f"Contig_{i+1}" for i, contig_id in enumerate(unique_contigs)}
contig_map(rows) ==
  LET unique_contigs == Unique([i \in 1..Len(rows) |-> rows[i].source], {})
  IN  [c \in Range(unique_contigs) |-> <<"Contig", "_", Digit[IndexOf(unique_contigs, c)]>>]

\* DataFrame.drop_duplicates(): the first of the rows equal in all columns
RECURSIVE drop_duplicates(_, _)
drop_duplicates(rows, seen) ==
  IF rows = <<>> THEN <<>>
  ELSE IF Head(rows) \in seen THEN drop_duplicates(Tail(rows), seen)
       ELSE <<Head(rows)>> \o drop_duplicates(Tail(rows), seen \cup {Head(rows)})

\* the table process_file_for_plotting writes for a plot table that has rows
df_formatted(rows) ==
  drop_duplicates([i \in 1..Len(rows) |->
                     [Formatted(rows[i]) EXCEPT !.source = contig_map(rows)[rows[i].source]]], {})

\* what process_file_for_plotting may read and write for one sample
process_file_for_plotting(dir, sample_name) ==
  IF input_files(dir, sample_name) = {}
  THEN { [sample |-> sample_name, read |-> None, wrote |-> None, rows |-> <<>>] }
  ELSE { IF dir[f] = <<>>
         THEN [sample |-> sample_name, read |-> f, wrote |-> None, rows |-> <<>>]
         ELSE [sample |-> sample_name, read |-> f, wrote |-> sample_name \o FinalSuffix,
               rows |-> df_formatted(dir[f])] :
           f \in input_files(dir, sample_name) }

\* sample names: one a prefix of another, one with '_' in it
PlotSampleNames == { <<"k", "1">>, <<"k", "1", "0">>, <<"k", "2", "_", "1">> }

\* rows of a plot table: an annotated gene, an unannotated row of the same
\* gene, a gene of a second contig
PlotTableRows ==
  { PlotRow(DetailRow(CdsFeature(Gff(K1, <<"CDS">>, 1, <<"ID=", "1", "_", "1", ";">>)),
                      ARG, <<"ceoB">>, NaN, NaN, NaN)),
    PlotRow(DetailRow(CdsFeature(Gff(K1, <<"CDS">>, 1, <<"ID=", "1", "_", "1", ";">>)),
                      Other, NaN, NaN, NaN, NaN)),
    PlotRow(DetailRow(CdsFeature(Gff(K2, <<"CDS">>, 1, <<"ID=", "2", "_", "1", ";">>)),
                      HMRG, <<"acrF">>, NaN, NaN, NaN)) }

PlotTables == UNION { [1..n -> PlotTableRows] : n \in 0..MaxPlotRows }

\* the input folder holds the plot tables of one or two samples
InitPlotter ==
  /\ HeaderIdle
  /\ MapIdle
  /\ SampleIdle
  /\ ReportIdle
  /\ RunIdle
  /\ \E a, b \in PlotSampleNames : \E ta, tb \in PlotTables :
       folder = ((a \o PlotSuffix) :> ta) @@ ((b \o PlotSuffix) :> tb)
  /\ plotSamples = <<>>
  /\ plotNext = 0
  /\ plotLog = <<>>

\* main up to its loop: the sample names taken from the file names
ListSamples ==
  /\ plotNext = 0
  /\ plotSamples' = list_samples(folder)
  /\ plotNext' = 1
  /\ UNCHANGED <<folder, plotLog>>
  /\ UNCHANGED <<headerVars, mapVars, sampleVars, reportVars, runVars>>

\* one iteration of the loop of main: process_file_for_plotting(sample)
ProcessFileForPlotting ==
  /\ plotNext \in 1..Len(plotSamples)
  /\ \E done \in process_file_for_plotting(folder, plotSamples[plotNext]) :
       plotLog' = Append(plotLog, done)
  /\ plotNext' = plotNext + 1
  /\ UNCHANGED <<folder, plotSamples>>
  /\ UNCHANGED <<headerVars, mapVars, sampleVars, reportVars, runVars>>

NextPlotter == ListSamples \/ ProcessFileForPlotting

SpecPlotter == InitPlotter /\ [][NextPlotter]_vars

\* ------------------------------------------------ claims on the plotter
\* the sample a plot table of the input folder belongs to
OwnerOf(fname) == SubSeq(fname, 1, Len(fname) - Len(PlotSuffix))

\* C13 as claimed: processing one sample reads only that sample's own input
\* file and writes only that sample's own output file, also when one sample
\* name is a prefix of another or contains '_'.
C13_OwnFilesOnly ==
  \A i \in 1..Len(plotLog) :
    /\ plotLog[i].read # None => plotLog[i].read = plotLog[i].sample \o PlotSuffix
    /\ plotLog[i].wrote # None => plotLog[i].wrote = OwnerOf(plotLog[i].read) \o FinalSuffix

\* the index of the first row of a table that lies on contig c
FirstRowOn(rows, c) ==
  CHOOSE i \in 1..Len(rows) : rows[i].source = c /\ \A j \in 1..(i-1) : rows[j].source # c

\* Contig_i for the contig that is the i-th to appear in the table
FirstSeenLabel(rows, c) ==
  <<"Contig", "_",
    Digit[Cardinality({ d \in { rows[i].source : i \in 1..Len(rows) } :
                          FirstRowOn(rows, d) <= FirstRowOn(rows, c) })]>>

\* the table written is the table read with every contig_id replaced by its
\* first-seen label, the labels of distinct contigs distinct, and no two of
\* its rows equal in all columns
LabelledAndDistinct(in, out) ==
  /\ \A c, d \in { in[i].source : i \in 1..Len(in) } :
       c # d => FirstSeenLabel(in, c) # FirstSeenLabel(in, d)
  /\ { out[i] : i \in 1..Len(out) } =
       { [Formatted(in[i]) EXCEPT !.source = FirstSeenLabel(in, in[i].source)] : i \in 1..Len(in) }
  /\ \A i, j \in 1..Len(out) : i # j => out[i] # out[j]

\* C14: the plotter maps each distinct contig_id to Contig_i, i the 1-based
\* rank of the contig in first-seen order of the input rows, distinct contigs
\* get distinct labels, and the table written has no two rows equal in all
\* columns
C14_FirstSeenLabels ==
  \A i \in 1..Len(plotLog) :
    plotLog[i].wrote # None => LabelledAndDistinct(folder[plotLog[i].read], plotLog[i].rows)

\* a table whose first row lies on k_2 and whose later rows are two rows of
\* one gene of k_1: k_2 is Contig_1, k_1 is Contig_2, and two rows are written
C14_Witness ==
  \E i \in 1..Len(plotLog) :
    /\ plotLog[i].wrote # None
    /\ Len(folder[plotLog[i].read]) = 3
    /\ folder[plotLog[i].read][1].source = K2
    /\ folder[plotLog[i].read][2].source = K1
    /\ Formatted(folder[plotLog[i].read][2]) = Formatted(folder[plotLog[i].read][3])
    /\ Len(plotLog[i].rows) = 2
    /\ plotLog[i].rows[1].source = <<"Contig", "_", "1">>
    /\ plotLog[i].rows[2].source = <<"Contig", "_", "2">>

\* ====================== from the reference FASTA to the translated hit
\* pd.read_csv(HMRG_MAP_FILE, sep='\t', index_col='accession', dtype=str)
\* .squeeze("columns").to_dict() on the table as 10.5 wrote it: read_csv reads
\* the default NA markers as missing values
LoadTable(table) ==
  [i \in 1..Len(table) |-> [key |-> ReadText(table[i].key), value |-> ReadText(table[i].value)]]

\* a reference FASTA of one header line, and a sample whose only BacMet hit has
\* that header as its subject id
InitRoundTrip ==
  /\ header \in { Join(fs, "|") : fs \in FieldSeqs }
  /\ parsed = [accession |-> Unset, gene_name |-> Unset]
  /\ accColoc = Unset
  /\ accAbund = Unset
  /\ MapIdle
  /\ card = << Hit(K2 \o <<"_", "1">>, <<"gb", "|", "ceoB">>, <<"9">>) >>
  /\ bacmet = << Hit(K1 \o <<"_", "1">>, header, <<"9">>) >>
  /\ gff = <<>>
  /\ hmrg_map = <<>>
  /\ df_annotations = <<>>
  /\ details = NoFile
  /\ pairs = NoFile
  /\ hmrgAbundance = NoFile
  /\ samplePc = "idle"
  /\ ReportIdle
  /\ RunIdle
  /\ PlotterIdle

\* the for-loop of 10.5 main over the one line of the FASTA
ReadHeaderLine ==
  /\ mapPc = "reading"
  /\ fastaRead = <<>>
  /\ fastaRead' = << FastaLine(header) >>
  /\ annotation_map' = RegisterLine(annotation_map, FastaLine(header))
  /\ UNCHANGED <<unique_map, mapPc>>
  /\ UNCHANGED <<headerVars, sampleVars, reportVars, runVars, plotterVars>>

\* 11_run_colocalization_analysis_v6.main up to its loop: the table is loaded
\* once the map builder has written it
LoadHmrgMap ==
  /\ mapPc = "written"
  /\ samplePc = "idle"
  /\ hmrg_map' = LoadTable(unique_map)
  /\ samplePc' = "start"
  /\ UNCHANGED <<card, bacmet, gff, df_annotations, details, pairs, hmrgAbundance>>
  /\ UNCHANGED <<headerVars, mapVars, reportVars, runVars, plotterVars>>

NextRoundTrip == ReadHeaderLine \/ WriteMap \/ LoadHmrgMap \/ AnalyzeSample

SpecRoundTrip == InitRoundTrip /\ [][NextRoundTrip]_vars

\* the sample was analyzed with the table built from the header alone, and the
\* header registered an entry
TranslatedFromOwnTable ==
  /\ samplePc = "analyzed"
  /\ fastaRead = << FastaLine(header) >>
  /\ Registers(1)

\* C22 as claimed: for a reference header from which the map builder registers
\* an entry, the accession the translator extracts from the same header is a
\* key of the table built from that header alone, and the hit is translated to
\* the registered gene name.
C22_RoundTrip ==
  TranslatedFromOwnTable =>
    /\ DictHas(hmrg_map, parse_hmrg_accession(bacmet[1].sseqid))
    /\ \A j \in 1..Len(df_annotations) :
         df_annotations[j].gene_type = HMRG =>
            df_annotations[j].gene_name = process_header(fastaRead[1]).gene_name

====
